---- MODULE Spec2Model ----
(***************************************************************************)
(* Real-time job-progress tracking core of the invoice-processing          *)
(* frontend: the ProcessingProvider (jobs registry, socket, task_update    *)
(* reconciliation, startBatchProcessing, cancelJob), the NotificationProvider *)
(* nested in it (its socket, the unread counter, the jobs watcher) and the *)
(* aggregates the UploadInvoicesModal derives from the registry; and, on   *)
(* the server side, the unread count and pushed notifications the          *)
(* NotificationProvider consumes and the access-code routes.               *)
(*                                                                         *)
(* React state is modelled at the granularity the code gives it: every     *)
(* setJobs call passes an updater function, React applies queued updaters  *)
(* in order to the latest state, so each updater is one atomic step on     *)
(* `jobs`.  Every await is a step boundary.                                *)
(***************************************************************************)
EXTENDS Integers, Sequences, FiniteSets

VARIABLES
    jobs,          \* useState<Map<string, ProcessingJob>>: task_id -> job
    isConnected,   \* useState(false)
    sock,          \* socketRef.current: state of the processing socket
    sendBuffer,    \* packets the socket buffers while it is not connected
    rooms,         \* task rooms joined on the server in the current session
    emitted,       \* every join_task the provider has emitted, in order
    pc,            \* position of the startBatchProcessing call
    files,         \* the files argument of the call in flight
    settled,       \* how the last startBatchProcessing promise settled
    nextId,        \* next task id the backend hands out
    user,          \* useAuth().user?.id
    notifSock,     \* state of the notification socket
    trackingTaskIds, \* UploadInvoicesModal: useState<string[]>([])
    unreadCount,   \* NotificationProvider: useState(0)
    previousJobs,  \* NotificationProvider: previousJobsRef.current
    markPc,        \* position of the markAllAsRead call
    refreshes,     \* refreshUnreadCount calls whose fetch is in flight
    notifRoom,     \* user room the notification socket joined in its session
    notifJoins,    \* join_user_notifications the notification socket emitted
    backendUnread, \* the unread count the backend keeps for the user
    notifInFlight, \* user_notification events pushed and not yet delivered
    accessCode,    \* the row of the access code in the database
    markUsed,      \* the mark-used requests: position, email, snapshot
    now            \* the clock of the server

\* the state of the consumers of the registry: the upload modal and the
\* NotificationProvider
uiVars == <<trackingTaskIds, unreadCount, previousJobs, markPc, refreshes>>

\* what the backend keeps for the signed-in user and has pushed to them
backendVars == <<notifRoom, notifJoins, backendUnread, notifInFlight>>

\* the access-code routes of the Next.js server
accessVars == <<accessCode, markUsed, now>>

serverVars == <<backendVars, accessVars>>

vars == <<jobs, isConnected, sock, sendBuffer, rooms, emitted, pc, files,
          settled, nextId, user, notifSock, uiVars, serverVars>>

----------------------------------------------------------------------------
(* Bounds *)

MaxTasks == 2
MaxFiles == 2
MaxUnread == 2
MaxRefreshes == 2
MaxJoins == 2
MaxInFlight == 1
MaxRequests == 2
MaxTime == 2

(* Values *)

Null == "null"

TaskIds == 1..MaxTasks

FileNames == {"a.pdf", "b.pdf"}

FileLists == UNION {[1..n -> FileNames] : n \in 1..MaxFiles}

EventTypes == {"stage_start", "progress", "complete", "error", "stage_complete"}

\* progress carried by an event: below, inside and above the 0..100 range
ProgressValues == {-20, 45, 130}

Results == {"r1"}

Errors == {"e1"}

\* an optional number: <<>> is undefined/null, <<n>> is the number n
Opt(S) == {<<>>} \cup {<<x>> : x \in S}

\* the payload of a task_update event, as destructured by the handler
Events ==
    [task_id : TaskIds, type : EventTypes, progress : Opt(ProgressValues),
     result : Results \cup {Null}, error : Errors \cup {Null}]

\* the events the backend documents (docs/WEBSOCKET_INTEGRATION.md): stage and
\* progress events carry a progress, complete carries 100 and the result,
\* error carries the error
BackendEvents ==
    UNION {{[task_id |-> id, type |-> "stage_start", progress |-> <<40>>,
             result |-> Null, error |-> Null],
            [task_id |-> id, type |-> "progress", progress |-> <<40>>,
             result |-> Null, error |-> Null],
            [task_id |-> id, type |-> "stage_complete", progress |-> <<40>>,
             result |-> Null, error |-> Null],
            [task_id |-> id, type |-> "complete", progress |-> <<100>>,
             result |-> "r1", error |-> Null],
            [task_id |-> id, type |-> "error", progress |-> <<>>,
             result |-> Null, error |-> "e1"]} : id \in TaskIds}

Min(a, b) == IF a < b THEN a ELSE b

Max(a, b) == IF a > b THEN a ELSE b

\* JavaScript a || b on values that are a non-empty string or undefined
OrElse(a, b) == IF a # Null THEN a ELSE b

IsTerminal(status) == status \in {"completed", "failed"}

----------------------------------------------------------------------------
(* task_update handler *)

\* the event types the handler maps to a status
KnownTypes == {"complete", "error", "progress", "stage_start"}

\* mutant: a type the handler does not know counts as progress
jobStatusDefaultProcessing(job, type) ==
    IF type = "complete" THEN "completed"
    ELSE IF type = "error" THEN "failed"
    ELSE "processing"

jobStatus(job, type) ==
    IF type = "complete" THEN "completed"
    ELSE IF type = "error" THEN "failed"
    ELSE IF type = "progress" \/ type = "stage_start" THEN "processing"
    ELSE job.status

\* mutant: the completed case no longer forces 100
updatedProgressNoForce(job, data) ==
    IF data.progress # <<>>
    THEN Min(100, Max(0, data.progress[1]))
    ELSE job.progress

\* mutant: the event's progress is added to the stored one
updatedProgressDelta(job, data) ==
    IF data.progress # <<>>
    THEN Min(100, Max(0, job.progress + data.progress[1]))
    ELSE job.progress

\* mutant: the progress of the event is stored as it comes
updatedProgressUnclamped(job, data) ==
    LET raw == IF data.progress # <<>> THEN data.progress[1] ELSE job.progress
    IN  IF jobStatus(job, data.type) = "completed" THEN 100 ELSE raw

updatedProgress(job, data) ==
    LET clamped == IF data.progress # <<>>
                   THEN Min(100, Max(0, data.progress[1]))
                   ELSE job.progress
    IN  IF jobStatus(job, data.type) = "completed" THEN 100 ELSE clamped

\* mutant: the error of the event is not stored
updatedJobKeepsError(job, data) ==
    [job EXCEPT !.status = jobStatus(job, data.type),
                !.progress = updatedProgress(job, data),
                !.result = OrElse(data.result, job.result)]

updatedJob(job, data) ==
    [job EXCEPT !.status = jobStatus(job, data.type),
                !.progress = updatedProgress(job, data),
                !.result = OrElse(data.result, job.result),
                !.error = OrElse(data.error, job.error)]

\* the updates log of a job record: ProcessingJob declares no such field and
\* the handler stores none, so reading it yields nothing
updates(job) == IF "updates" \in DOMAIN job THEN job.updates ELSE <<>>

\* mutant: an update for an unknown task creates its entry
TaskUpdateUpsert(prev, data) ==
    LET job == IF data.task_id \in DOMAIN prev
               THEN prev[data.task_id]
               ELSE [task_id |-> data.task_id, filename |-> "",
                     status |-> "pending", progress |-> 0,
                     result |-> Null, error |-> Null]
    IN  [id \in DOMAIN prev \cup {data.task_id} |->
            IF id = data.task_id THEN updatedJob(job, data) ELSE prev[id]]

\* mutant: a terminal event ends every job of the registry
TaskUpdateUpdaterBroadcast(prev, data) ==
    IF data.task_id \notin DOMAIN prev
    THEN prev
    ELSE [id \in DOMAIN prev |->
             IF id = data.task_id \/ IsTerminal(jobStatus(prev[id], data.type))
             THEN updatedJob(prev[id], data)
             ELSE prev[id]]

\* the updater passed to setJobs by the task_update handler
TaskUpdateUpdater(prev, data) ==
    IF data.task_id \notin DOMAIN prev
    THEN prev
    ELSE [prev EXCEPT ![data.task_id] = updatedJob(prev[data.task_id], data)]

TaskUpdate(data) ==
    /\ sock = "connected"
    /\ jobs' = TaskUpdateUpdater(jobs, data)
    /\ UNCHANGED <<isConnected, sock, sendBuffer, rooms, emitted, pc, files,
                   settled, nextId, user, notifSock>>
    /\ UNCHANGED uiVars
    /\ UNCHANGED serverVars

----------------------------------------------------------------------------
(* startBatchProcessing *)

\* the entry the seeding updater stores for one task
SeedJob(task_id, filename) ==
    [task_id |-> task_id, filename |-> filename, status |-> "pending",
     progress |-> 0, result |-> Null, error |-> Null]

\* mutant: every entry gets the first file's name
SeedUpdaterFirstFile(prev, task_ids, fs) ==
    [id \in DOMAIN prev \cup {task_ids[i] : i \in 1..Len(task_ids)} |->
        IF \E i \in 1..Len(task_ids) : task_ids[i] = id
        THEN [task_id |-> id, filename |-> fs[1], status |-> "pending",
              progress |-> 0, result |-> Null, error |-> Null]
        ELSE prev[id]]

\* mutant: the new map is built from scratch, not from prev
SeedUpdaterFresh(prev, task_ids, fs) ==
    [id \in {task_ids[i] : i \in 1..Len(task_ids)} |->
        LET last == CHOOSE i \in 1..Len(task_ids) :
                        /\ task_ids[i] = id
                        /\ \A j \in 1..Len(task_ids) :
                               task_ids[j] = id => j <= i
        IN  SeedJob(id, fs[last])]

\* the updater passed to setJobs after the create-jobs call succeeded:
\* task_ids.forEach((task_id, index) => updated.set(task_id, {...files[index]}))
SeedUpdater(prev, task_ids, fs) ==
    [id \in DOMAIN prev \cup {task_ids[i] : i \in 1..Len(task_ids)} |->
        IF \E i \in 1..Len(task_ids) : task_ids[i] = id
        THEN LET last == CHOOSE i \in 1..Len(task_ids) :
                            /\ task_ids[i] = id
                            /\ \A j \in 1..Len(task_ids) :
                                   task_ids[j] = id => j <= i
             IN  SeedJob(id, fs[last])
        ELSE prev[id]]

\* the ids the backend answers a batch of n files with: fresh, in input order
BackendTaskIds(n) == [i \in 1..n |-> nextId + i - 1]

SeqToSet(s) == {s[i] : i \in 1..Len(s)}

\* mutant: the connected check is missing
StartBatchProcessingUnchecked(fs) ==
    /\ pc = "idle"
    /\ pc' = "uploading"
    /\ files' = fs
    /\ settled' = [state |-> "pending"]
    /\ UNCHANGED <<jobs, isConnected, sock, sendBuffer, rooms, emitted,
                   nextId, user, notifSock>>
    /\ UNCHANGED uiVars
    /\ UNCHANGED serverVars

\* if (!socketRef.current?.connected) throw; else the uploads are started
StartBatchProcessing(fs) ==
    /\ pc = "idle"
    /\ IF sock # "connected"
       THEN /\ settled' = [state |-> "rejected",
                           error |-> "WebSocket not connected"]
            /\ UNCHANGED <<pc, files>>
       ELSE /\ pc' = "uploading"
            /\ files' = fs
            /\ settled' = [state |-> "pending"]
    /\ UNCHANGED <<jobs, isConnected, sock, sendBuffer, rooms, emitted,
                   nextId, user, notifSock>>
    /\ UNCHANGED uiVars
    /\ UNCHANGED serverVars

\* mutant: the failed uploads are dropped and the call goes on
UploadsSettleAllSettled(failed) ==
    /\ pc = "uploading"
    /\ failed \subseteq 1..Len(files)
    /\ pc' = "creating"
    /\ UNCHANGED <<files, settled>>
    /\ UNCHANGED <<jobs, isConnected, sock, sendBuffer, rooms, emitted,
                   nextId, user, notifSock>>
    /\ UNCHANGED uiVars
    /\ UNCHANGED serverVars

\* await Promise.all(uploadPromises): every upload succeeded, or one threw
UploadsSettle(failed) ==
    /\ pc = "uploading"
    /\ failed \subseteq 1..Len(files)
    /\ IF failed = {}
       THEN /\ pc' = "creating"
            /\ UNCHANGED <<files, settled>>
       ELSE /\ pc' = "idle"
            /\ files' = <<>>
            /\ settled' = [state |-> "rejected",
                           error |-> "Failed to upload file"]
    /\ UNCHANGED <<jobs, isConnected, sock, sendBuffer, rooms, emitted,
                   nextId, user, notifSock>>
    /\ UNCHANGED uiVars
    /\ UNCHANGED serverVars

\* mutant: join_task is emitted for the first task only
CreateJobsOkJoinFirst ==
    /\ pc = "creating"
    /\ nextId + Len(files) - 1 <= MaxTasks
    /\ LET task_ids == BackendTaskIds(Len(files))
       IN  /\ jobs' = SeedUpdater(jobs, task_ids, files)
           /\ emitted' = Append(emitted, task_ids[1])
           /\ IF sock = "connected"
              THEN /\ rooms' = rooms \cup {task_ids[1]}
                   /\ UNCHANGED sendBuffer
              ELSE /\ sendBuffer' = Append(sendBuffer, task_ids[1])
                   /\ UNCHANGED rooms
           /\ settled' = [state |-> "resolved", value |-> task_ids]
           /\ nextId' = nextId + Len(files)
    /\ pc' = "idle"
    /\ files' = <<>>
    /\ UNCHANGED <<isConnected, sock, user, notifSock>>
    /\ UNCHANGED uiVars
    /\ UNCHANGED serverVars

\* mutant: join_task is emitted but the entries are not stored
CreateJobsOkJoinUnseeded ==
    /\ pc = "creating"
    /\ nextId + Len(files) - 1 <= MaxTasks
    /\ LET task_ids == BackendTaskIds(Len(files))
       IN  /\ emitted' = emitted \o task_ids
           /\ IF sock = "connected"
              THEN /\ rooms' = rooms \cup SeqToSet(task_ids)
                   /\ UNCHANGED sendBuffer
              ELSE /\ sendBuffer' = sendBuffer \o task_ids
                   /\ UNCHANGED rooms
           /\ settled' = [state |-> "resolved", value |-> task_ids]
           /\ nextId' = nextId + Len(files)
    /\ pc' = "idle"
    /\ files' = <<>>
    /\ UNCHANGED <<jobs, isConnected, sock, user, notifSock>>
    /\ UNCHANGED uiVars
    /\ UNCHANGED serverVars

\* the create-jobs call answered OK: seed the registry, emit join_task for
\* every task id, resolve with task_ids
CreateJobsOk ==
    /\ pc = "creating"
    /\ nextId + Len(files) - 1 <= MaxTasks
    /\ LET task_ids == BackendTaskIds(Len(files))
       IN  /\ jobs' = SeedUpdater(jobs, task_ids, files)
           /\ emitted' = emitted \o task_ids
           /\ IF sock = "connected"
              THEN /\ rooms' = rooms \cup SeqToSet(task_ids)
                   /\ UNCHANGED sendBuffer
              ELSE /\ sendBuffer' = sendBuffer \o task_ids
                   /\ UNCHANGED rooms
           /\ settled' = [state |-> "resolved", value |-> task_ids]
           /\ nextId' = nextId + Len(files)
    /\ pc' = "idle"
    /\ files' = <<>>
    /\ UNCHANGED <<isConnected, sock, user, notifSock>>
    /\ UNCHANGED uiVars
    /\ UNCHANGED serverVars

\* mutant: the entries are stored before the response is looked at
CreateJobsFailSeeded(message) ==
    /\ pc = "creating"
    /\ pc' = "idle"
    /\ files' = <<>>
    /\ settled' = [state |-> "rejected", error |-> message]
    /\ jobs' = [id \in DOMAIN jobs \cup {nextId} |->
                   IF id = nextId
                   THEN [task_id |-> id, filename |-> files[1],
                         status |-> "pending", progress |-> 0,
                         result |-> Null, error |-> Null]
                   ELSE jobs[id]]
    /\ UNCHANGED <<isConnected, sock, sendBuffer, rooms, emitted, nextId,
                   user, notifSock>>
    /\ UNCHANGED uiVars
    /\ UNCHANGED serverVars

\* the create-jobs call failed: fetch threw, or the response was not OK
CreateJobsFail(message) ==
    /\ pc = "creating"
    /\ pc' = "idle"
    /\ files' = <<>>
    /\ settled' = [state |-> "rejected", error |-> message]
    /\ UNCHANGED <<jobs, isConnected, sock, sendBuffer, rooms, emitted,
                   nextId, user, notifSock>>
    /\ UNCHANGED uiVars
    /\ UNCHANGED serverVars

CreateJobsErrors == {"Failed to fetch", "Failed to start batch processing"}

----------------------------------------------------------------------------
(* cancelJob *)

\* mutant: the cancelled job is removed from the registry
CancelUpdaterRemoves(prev, taskId) ==
    [id \in DOMAIN prev \ {taskId} |-> prev[id]]

\* the updater passed to setJobs after the cancel request was accepted
CancelUpdater(prev, taskId) ==
    IF taskId \in DOMAIN prev
    THEN [prev EXCEPT ![taskId] =
              [@ EXCEPT !.status = "failed", !.error = "Cancelled by user"]]
    ELSE prev

\* POST /api/jobs/{taskId}/cancel answered: if OK the job is marked failed;
\* otherwise (not OK, or fetch threw) the registry is left alone
CancelJob(taskId, ok) ==
    /\ jobs' = IF ok THEN CancelUpdater(jobs, taskId) ELSE jobs
    /\ UNCHANGED <<isConnected, sock, sendBuffer, rooms, emitted, pc, files,
                   settled, nextId, user, notifSock>>
    /\ UNCHANGED uiVars
    /\ UNCHANGED serverVars

----------------------------------------------------------------------------
(* UploadInvoicesModal: the batch it tracks and the aggregates it shows *)

\* trackingTaskIds.map((id) => jobs.get(id)).filter((job) => job !== undefined)
trackedJobs(ids, js) ==
    LET present == SelectSeq(ids, LAMBDA id : id \in DOMAIN js)
    IN  [i \in 1..Len(present) |-> js[present[i]]]

\* trackedJobs.reduce((sum, job) => sum + (job?.progress || 0), 0)
RECURSIVE SumProgress(_)
SumProgress(tj) ==
    IF tj = <<>> THEN 0 ELSE tj[1].progress + SumProgress(Tail(tj))

\* Math.round(num / den) for num >= 0, den > 0: halves round up
MathRound(num, den) == (2 * num + den) \div (2 * den)

\* mutant: the mean is truncated
overallProgressFloor(tj) ==
    IF Len(tj) = 0 THEN 0 ELSE SumProgress(tj) \div Len(tj)

overallProgress(tj) ==
    IF Len(tj) = 0 THEN 0 ELSE MathRound(SumProgress(tj), Len(tj))

\* mutant: some() instead of every()
allJobsCompleteSome(tj) ==
    IF Len(tj) = 0
    THEN FALSE
    ELSE \E i \in 1..Len(tj) : IsTerminal(tj[i].status)

allJobsComplete(tj) ==
    IF Len(tj) = 0
    THEN FALSE
    ELSE \A i \in 1..Len(tj) : IsTerminal(tj[i].status)

\* submit, after await startBatchProcessing(...): setTrackingTaskIds(taskIds)
SubmitResolved ==
    /\ settled.state = "resolved"
    /\ trackingTaskIds # settled.value
    /\ trackingTaskIds' = settled.value
    /\ UNCHANGED <<jobs, isConnected, sock, sendBuffer, rooms, emitted, pc,
                   files, settled, nextId, user, notifSock, unreadCount,
                   previousJobs, markPc, refreshes>>
    /\ UNCHANGED serverVars

----------------------------------------------------------------------------
(* the processing socket: effect of ProcessingProvider and its handlers *)

Mounted == sock \notin {"none", "closed"}

NotifOpen == notifSock \in {"connecting", "connected"}

\* the effects run: io(backendUrl, {forceNew: true, ...}) and, when a user
\* is signed in, refreshUnreadCount() and the notification socket
\* io(backendUrl, ...)
Mount ==
    /\ ~Mounted
    /\ sock' = "connecting"
    /\ sendBuffer' = <<>>
    /\ notifSock' = IF user # Null THEN "connecting" ELSE notifSock
    /\ user # Null => refreshes < MaxRefreshes
    /\ refreshes' = IF user # Null THEN refreshes + 1 ELSE refreshes
    /\ UNCHANGED <<jobs, isConnected, rooms, emitted, pc, files, settled,
                   nextId, user>>
    /\ UNCHANGED <<trackingTaskIds, unreadCount, previousJobs, markPc>>
    /\ notifJoins' = IF user # Null THEN 0 ELSE notifJoins
    /\ UNCHANGED <<notifRoom, backendUnread, notifInFlight, accessVars>>

\* the effect cleanups run: socket.disconnect() on both sockets
Unmount ==
    /\ Mounted
    /\ sock' = "closed"
    /\ isConnected' = FALSE
    /\ rooms' = {}
    /\ notifSock' = IF NotifOpen THEN "closed" ELSE notifSock
    /\ UNCHANGED <<jobs, sendBuffer, emitted, pc, files, settled, nextId,
                   user>>
    /\ UNCHANGED uiVars
    /\ notifRoom' = Null
    /\ notifInFlight' = <<>>
    /\ UNCHANGED <<notifJoins, backendUnread, accessVars>>

\* socket.on("connect"): a new session; the buffered packets are sent
SocketConnect ==
    /\ sock \in {"connecting", "reconnecting"}
    /\ sock' = "connected"
    /\ isConnected' = TRUE
    /\ rooms' = SeqToSet(sendBuffer)
    /\ sendBuffer' = <<>>
    /\ UNCHANGED <<jobs, emitted, pc, files, settled, nextId, user,
                   notifSock>>
    /\ UNCHANGED uiVars
    /\ UNCHANGED serverVars

DisconnectReasons == {"transport close", "io server disconnect"}

\* mutant: a lost connection fails the jobs that were still running
SocketDisconnectFailsJobs(reason) ==
    /\ sock = "connected"
    /\ sock' = IF reason = "io server disconnect"
               THEN "stopped" ELSE "reconnecting"
    /\ isConnected' = FALSE
    /\ rooms' = {}
    /\ jobs' = [id \in DOMAIN jobs |->
                   IF IsTerminal(jobs[id].status)
                   THEN jobs[id]
                   ELSE [jobs[id] EXCEPT !.status = "failed"]]
    /\ UNCHANGED <<sendBuffer, emitted, pc, files, settled, nextId,
                   user, notifSock>>
    /\ UNCHANGED uiVars
    /\ UNCHANGED serverVars

\* socket.on("disconnect"): the session and its rooms are gone; the socket
\* reconnects by itself unless the server closed it
SocketDisconnect(reason) ==
    /\ sock = "connected"
    /\ sock' = IF reason = "io server disconnect"
               THEN "stopped" ELSE "reconnecting"
    /\ isConnected' = FALSE
    /\ rooms' = {}
    /\ UNCHANGED <<jobs, sendBuffer, emitted, pc, files, settled, nextId,
                   user, notifSock>>
    /\ UNCHANGED uiVars
    /\ UNCHANGED serverVars

\* socket.on("connect_error"): an attempt failed; after reconnectionAttempts
\* failures in a row the socket stops trying
SocketConnectError(giveUp) ==
    /\ sock \in {"connecting", "reconnecting"}
    /\ sock' = IF giveUp THEN "stopped" ELSE sock
    /\ isConnected' = FALSE
    /\ UNCHANGED <<jobs, sendBuffer, rooms, emitted, pc, files, settled,
                   nextId, user, notifSock>>
    /\ UNCHANGED uiVars
    /\ UNCHANGED serverVars

----------------------------------------------------------------------------
(* the notification socket: effect of NotificationProvider, keyed on user *)

UserIds == {"u1"}

SignIn(id) ==
    /\ user = Null
    /\ user' = id
    /\ notifSock' = IF Mounted THEN "connecting" ELSE notifSock
    /\ Mounted => refreshes < MaxRefreshes
    /\ refreshes' = IF Mounted THEN refreshes + 1 ELSE refreshes
    /\ UNCHANGED <<jobs, isConnected, sock, sendBuffer, rooms, emitted, pc,
                   files, settled, nextId>>
    /\ UNCHANGED <<trackingTaskIds, unreadCount, previousJobs, markPc>>
    /\ notifJoins' = IF Mounted THEN 0 ELSE notifJoins
    /\ UNCHANGED <<notifRoom, backendUnread, notifInFlight, accessVars>>

SignOut ==
    /\ user # Null
    /\ user' = Null
    /\ notifSock' = IF NotifOpen THEN "closed" ELSE notifSock
    /\ UNCHANGED <<jobs, isConnected, sock, sendBuffer, rooms, emitted, pc,
                   files, settled, nextId>>
    /\ UNCHANGED uiVars
    /\ notifRoom' = Null
    /\ notifInFlight' = <<>>
    /\ UNCHANGED <<notifJoins, backendUnread, accessVars>>

\* mutant: the connect handler does not join the user's room
NotifConnectNoJoin ==
    /\ notifSock = "connecting"
    /\ notifJoins < MaxJoins
    /\ notifSock' = "connected"
    /\ UNCHANGED <<jobs, isConnected, sock, sendBuffer, rooms, emitted, pc,
                   files, settled, nextId, user>>
    /\ UNCHANGED uiVars
    /\ UNCHANGED serverVars

\* socket.on("connect"), on the first connection and on every reconnection:
\* emit("join_user_notifications", {user_id: user.id})
NotifConnect ==
    /\ notifSock = "connecting"
    /\ notifSock' = "connected"
    /\ UNCHANGED <<jobs, isConnected, sock, sendBuffer, rooms, emitted, pc,
                   files, settled, nextId, user>>
    /\ UNCHANGED uiVars
    /\ notifJoins < MaxJoins
    /\ notifRoom' = user
    /\ notifJoins' = notifJoins + 1
    /\ UNCHANGED <<backendUnread, notifInFlight, accessVars>>

\* the connection is lost: the session, its room and what was on its way
\* are gone; reconnection: true makes the socket connect again
NotifDisconnect ==
    /\ notifSock = "connected"
    /\ notifSock' = "connecting"
    /\ UNCHANGED <<jobs, isConnected, sock, sendBuffer, rooms, emitted, pc,
                   files, settled, nextId, user>>
    /\ UNCHANGED uiVars
    /\ notifRoom' = Null
    /\ notifInFlight' = <<>>
    /\ UNCHANGED <<notifJoins, backendUnread, accessVars>>

----------------------------------------------------------------------------
(* NotificationProvider: the unread counter *)

NotificationTypes == {"job_completed", "job_failed", "job_started"}

\* the backend records that a job of the user started, completed or failed:
\* a completed or failed job is unread, and the user_notification goes to
\* the user's room if a socket has joined it
BackendNotify(type) ==
    /\ IF type \in {"job_completed", "job_failed"}
       THEN /\ backendUnread < MaxUnread
            /\ backendUnread' = backendUnread + 1
       ELSE UNCHANGED backendUnread
    /\ IF notifRoom # Null
       THEN /\ Len(notifInFlight) < MaxInFlight
            /\ notifInFlight' = Append(notifInFlight, type)
       ELSE UNCHANGED notifInFlight
    /\ UNCHANGED <<jobs, isConnected, sock, sendBuffer, rooms, emitted, pc,
                   files, settled, nextId, user, notifSock>>
    /\ UNCHANGED uiVars
    /\ UNCHANGED <<notifRoom, notifJoins, accessVars>>

\* socket.on("user_notification"): job_completed and job_failed count one
UserNotification(type) ==
    /\ notifSock = "connected"
    /\ IF type \in {"job_completed", "job_failed"}
       THEN /\ unreadCount < MaxUnread
            /\ unreadCount' = unreadCount + 1
       ELSE UNCHANGED unreadCount
    /\ UNCHANGED <<jobs, isConnected, sock, sendBuffer, rooms, emitted, pc,
                   files, settled, nextId, user, notifSock, trackingTaskIds,
                   previousJobs, markPc, refreshes>>
    /\ notifInFlight # <<>>
    /\ Head(notifInFlight) = type
    /\ notifInFlight' = Tail(notifInFlight)
    /\ UNCHANGED <<notifRoom, notifJoins, backendUnread, accessVars>>

\* the jobs a run of the watcher effect sees going from pending or
\* processing to completed or failed
ObservedCompletions ==
    {id \in DOMAIN jobs \cap DOMAIN previousJobs :
        /\ ~IsTerminal(previousJobs[id].status)
        /\ IsTerminal(jobs[id].status)}

\* useEffect(..., [jobs]): compares jobs with previousJobsRef.current, logs
\* the status changes, and stores a copy of jobs in the ref
JobsWatcher ==
    /\ previousJobs # jobs
    /\ previousJobs' = jobs
    /\ UNCHANGED <<jobs, isConnected, sock, sendBuffer, rooms, emitted, pc,
                   files, settled, nextId, user, notifSock, trackingTaskIds,
                   unreadCount, markPc, refreshes>>
    /\ UNCHANGED serverVars

\* markAllAsRead is called: the POST mark-as-read is sent and awaited
MarkAllAsRead ==
    /\ markPc = "idle"
    /\ markPc' = "posting"
    /\ UNCHANGED <<jobs, isConnected, sock, sendBuffer, rooms, emitted, pc,
                   files, settled, nextId, user, notifSock, trackingTaskIds,
                   unreadCount, previousJobs, refreshes>>
    /\ UNCHANGED serverVars

\* the POST answered: if OK, the backend has marked every job read, and
\* setUnreadCount(0) and refreshUnreadCount() follow; otherwise (not OK, or
\* fetch threw) the counter is left alone
MarkAllResponse(ok) ==
    /\ markPc = "posting"
    /\ markPc' = "idle"
    /\ IF ok
       THEN /\ refreshes < MaxRefreshes
            /\ unreadCount' = 0
            /\ refreshes' = refreshes + 1
       ELSE UNCHANGED <<unreadCount, refreshes>>
    /\ UNCHANGED <<jobs, isConnected, sock, sendBuffer, rooms, emitted, pc,
                   files, settled, nextId, user, notifSock, trackingTaskIds,
                   previousJobs>>
    /\ backendUnread' = IF ok THEN 0 ELSE backendUnread
    /\ UNCHANGED <<notifRoom, notifJoins, notifInFlight, accessVars>>

\* the GET unread-count of a refreshUnreadCount call answered: if OK,
\* setUnreadCount(data.unread_count || 0)
RefreshResponse(ok, count) ==
    /\ refreshes > 0
    /\ refreshes' = refreshes - 1
    /\ unreadCount' = IF ok THEN count ELSE unreadCount
    /\ UNCHANGED <<jobs, isConnected, sock, sendBuffer, rooms, emitted, pc,
                   files, settled, nextId, user, notifSock, trackingTaskIds,
                   previousJobs, markPc>>
    /\ UNCHANGED serverVars

\* what the NotificationProvider does besides its socket
Notifications ==
    \/ \E type \in NotificationTypes : UserNotification(type)
    \/ MarkAllAsRead
    \/ \E ok \in BOOLEAN : MarkAllResponse(ok)
    \/ \E ok \in BOOLEAN, count \in 0..MaxUnread : RefreshResponse(ok, count)

----------------------------------------------------------------------------
(* the access-code routes: POST validate and POST mark-as-used *)

Emails == {"a@x.io", "b@x.io"}

Requests == 1..MaxRequests

\* a code as typed: a string is the sequence of its characters
CodeInputs ==
    {<<"A", "B">>, <<"a", "b">>, <<" ", "a", "B", " ">>, <<"B", "A">>,
     <<" ">>, <<>>}

\* String.prototype.toUpperCase on the characters of the codes
UpperChar(c) == IF c = "a" THEN "A" ELSE IF c = "b" THEN "B" ELSE c

toUpperCase(str) == [i \in 1..Len(str) |-> UpperChar(str[i])]

\* String.prototype.trim: the leading and trailing blanks are removed
RECURSIVE trimStart(_)
trimStart(str) ==
    IF str # <<>> /\ Head(str) = " " THEN trimStart(Tail(str)) ELSE str

RECURSIVE trimEnd(_)
trimEnd(str) ==
    IF str # <<>> /\ str[Len(str)] = " "
    THEN trimEnd(SubSeq(str, 1, Len(str) - 1))
    ELSE str

trim(str) == trimEnd(trimStart(str))

\* accessCode.trim().toUpperCase()
normalizedCode(input) == toUpperCase(trim(input))

\* the one row of the table: an unused code that expires after time 1
FreshCode ==
    [code |-> <<"A", "B">>, isUsed |-> FALSE, usedByEmail |-> Null,
     usedAt |-> <<>>, expiresAt |-> 1]

\* prisma.accessCode.findUnique({where: {code}}): the row read, or none
findUnique(row, code) == IF row.code = code THEN <<row>> ELSE <<>>

\* the checks both routes make on what findUnique returned, at time t: the
\* HTTP status they lead to (200: the code can be used)
codeStatus(found, t) ==
    IF found = <<>> THEN 404
    ELSE IF found[1].isUsed THEN 400
    ELSE IF t > found[1].expiresAt THEN 400
    ELSE 200

\* POST validate: {valid: true} with 200, {valid: false} otherwise
validateAccessCode(row, input, t) ==
    IF input = <<>>
    THEN 400
    ELSE codeStatus(findUnique(row, normalizedCode(input)), t)

IdleRequest ==
    [pc |-> "idle", code |-> <<>>, email |-> Null, at |-> 0, status |-> 0]

\* POST mark-as-used arrives: the body is checked, the code normalized and
\* the query of the row started
MarkUsedRequest(r, input, email) ==
    /\ markUsed[r].pc = "idle"
    /\ markUsed' =
           [markUsed EXCEPT ![r] =
               IF input = <<>> \/ email = Null
               THEN [@ EXCEPT !.pc = "done", !.status = 400]
               ELSE [@ EXCEPT !.pc = "finding",
                              !.code = normalizedCode(input),
                              !.email = email]]
    /\ UNCHANGED <<accessCode, now>>
    /\ UNCHANGED <<jobs, isConnected, sock, sendBuffer, rooms, emitted, pc,
                   files, settled, nextId, user, notifSock>>
    /\ UNCHANGED <<uiVars, backendVars>>

\* await findUnique resolved: not found, already used and expired end the
\* request; otherwise the update of the row is started
MarkUsedFind(r) ==
    /\ markUsed[r].pc = "finding"
    /\ LET status == codeStatus(findUnique(accessCode, markUsed[r].code), now)
       IN  markUsed' =
               [markUsed EXCEPT ![r] =
                   IF status = 200
                   THEN [@ EXCEPT !.pc = "updating", !.at = now]
                   ELSE [@ EXCEPT !.pc = "done", !.status = status]]
    /\ UNCHANGED <<accessCode, now>>
    /\ UNCHANGED <<jobs, isConnected, sock, sendBuffer, rooms, emitted, pc,
                   files, settled, nextId, user, notifSock>>
    /\ UNCHANGED <<uiVars, backendVars>>

\* await prisma.accessCode.update({where: {code}, data: {isUsed: true,
\* usedByEmail: email, usedAt: now}}) resolved: 200
MarkUsedUpdate(r) ==
    /\ markUsed[r].pc = "updating"
    /\ accessCode' = [accessCode EXCEPT !.isUsed = TRUE,
                                        !.usedByEmail = markUsed[r].email,
                                        !.usedAt = <<markUsed[r].at>>]
    /\ markUsed' = [markUsed EXCEPT ![r] =
                       [@ EXCEPT !.pc = "done", !.status = 200]]
    /\ UNCHANGED now
    /\ UNCHANGED <<jobs, isConnected, sock, sendBuffer, rooms, emitted, pc,
                   files, settled, nextId, user, notifSock>>
    /\ UNCHANGED <<uiVars, backendVars>>

\* time passes on the server
Tick ==
    /\ now < MaxTime
    /\ now' = now + 1
    /\ UNCHANGED <<accessCode, markUsed>>
    /\ UNCHANGED <<jobs, isConnected, sock, sendBuffer, rooms, emitted, pc,
                   files, settled, nextId, user, notifSock>>
    /\ UNCHANGED <<uiVars, backendVars>>

----------------------------------------------------------------------------

Init ==
    /\ jobs = <<>>
    /\ isConnected = FALSE
    /\ sock = "none"
    /\ sendBuffer = <<>>
    /\ rooms = {}
    /\ emitted = <<>>
    /\ pc = "idle"
    /\ files = <<>>
    /\ settled = [state |-> "none"]
    /\ nextId = 1
    /\ user = Null
    /\ notifSock = "none"
    /\ trackingTaskIds = <<>>
    /\ unreadCount = 0
    /\ previousJobs = <<>>
    /\ markPc = "idle"
    /\ refreshes = 0
    /\ notifRoom = Null
    /\ notifJoins = 0
    /\ backendUnread = 0
    /\ notifInFlight = <<>>
    /\ accessCode = FreshCode
    /\ markUsed = [r \in Requests |-> IdleRequest]
    /\ now = 0

\* the steps of a startBatchProcessing call
BatchCall ==
    \/ \E fs \in FileLists : StartBatchProcessing(fs)
    \/ \E failed \in SUBSET (1..MaxFiles) : UploadsSettle(failed)
    \/ CreateJobsOk
    \/ \E message \in CreateJobsErrors : CreateJobsFail(message)

\* the life of the processing socket
Transport ==
    \/ Mount
    \/ Unmount
    \/ SocketConnect
    \/ \E reason \in DisconnectReasons : SocketDisconnect(reason)
    \/ \E giveUp \in BOOLEAN : SocketConnectError(giveUp)

Next ==
    \/ \E data \in BackendEvents : TaskUpdate(data)
    \/ BatchCall
    \/ \E taskId \in TaskIds, ok \in BOOLEAN : CancelJob(taskId, ok)
    \/ Transport

\* the ProcessingProvider, fed the documented events
Spec == Init /\ [][Next]_vars

\* the events of a run in which no task fails
SuccessEvents == {data \in BackendEvents : data.type \in {"progress", "complete"}}

NextBatch ==
    \/ \E data \in SuccessEvents : TaskUpdate(data)
    \/ BatchCall
    \/ SubmitResolved
    \/ Transport

\* startBatchProcessing, its caller and the socket, while tasks progress and
\* complete
SpecBatch == Init /\ [][NextBatch]_vars

NextTree ==
    \/ Transport
    \/ \E id \in UserIds : SignIn(id)
    \/ SignOut
    \/ NotifConnect
    \/ NotifDisconnect
    \/ \E type \in NotificationTypes : BackendNotify(type)
    \/ Notifications

\* the provider tree of the root layout: the socket of the ProcessingProvider
\* and the NotificationProvider inside it, under the AuthProvider
SpecTree == Init /\ [][NextTree]_vars

\* the registry right after the first batch was seeded and tracked, in a
\* session whose user is signed in and whose two sockets are connected
InitUnread ==
    \E n \in 1..MaxFiles :
        LET fs == [i \in 1..n |-> "a.pdf"]
            task_ids == [i \in 1..n |-> i]
        IN  /\ jobs = SeedUpdater(<<>>, task_ids, fs)
            /\ isConnected = TRUE
            /\ sock = "connected"
            /\ sendBuffer = <<>>
            /\ rooms = SeqToSet(task_ids)
            /\ emitted = task_ids
            /\ pc = "idle"
            /\ files = <<>>
            /\ settled = [state |-> "resolved", value |-> task_ids]
            /\ nextId = n + 1
            /\ user \in UserIds
            /\ notifSock = "connected"
            /\ trackingTaskIds = task_ids
            /\ unreadCount = 0
            /\ previousJobs = jobs
            /\ markPc = "idle"
            /\ refreshes = 0
            /\ notifRoom = user
            /\ notifJoins = 1
            /\ backendUnread = 0
            /\ notifInFlight = <<>>
            /\ accessCode = FreshCode
            /\ markUsed = [r \in Requests |-> IdleRequest]
            /\ now = 0

NextUnread ==
    \/ \E data \in BackendEvents : TaskUpdate(data)
    \/ \E taskId \in TaskIds, ok \in BOOLEAN : CancelJob(taskId, ok)
    \/ JobsWatcher
    \/ \E type \in NotificationTypes : BackendNotify(type)
    \/ \E type \in NotificationTypes : UserNotification(type)

\* the NotificationProvider while the tasks of a batch run: the registry
\* changes, the watcher effect runs, the backend pushes user notifications
SpecUnread == InitUnread /\ [][NextUnread]_vars

NextCount ==
    \/ Mount
    \/ \E id \in UserIds : SignIn(id)
    \/ SignOut
    \/ NotifConnect
    \/ NotifDisconnect
    \/ \E type \in NotificationTypes : BackendNotify(type)
    \/ \E type \in NotificationTypes : UserNotification(type)
    \/ MarkAllAsRead
    \/ \E ok \in BOOLEAN : MarkAllResponse(ok)
    \/ \E ok \in BOOLEAN : RefreshResponse(ok, backendUnread)

\* the NotificationProvider and the backend's count: every GET unread-count
\* answers with the count the backend has when the answer arrives
SpecCount == Init /\ [][NextCount]_vars

NextAccess ==
    \/ \E r \in Requests, input \in CodeInputs, email \in Emails \cup {Null} :
           MarkUsedRequest(r, input, email)
    \/ \E r \in Requests : MarkUsedFind(r)
    \/ \E r \in Requests : MarkUsedUpdate(r)
    \/ Tick

\* the mark-as-used route serving requests concurrently
SpecAccess == Init /\ [][NextAccess]_vars

----------------------------------------------------------------------------
(* The reconciler on its own: the registry right after the first batch was *)
(* seeded on a connected socket, then any task_update payload whatever.    *)

InitReconciler ==
    \E n \in 1..MaxFiles :
        LET fs == [i \in 1..n |-> "a.pdf"]
            task_ids == [i \in 1..n |-> i]
        IN  /\ jobs = SeedUpdater(<<>>, task_ids, fs)
            /\ isConnected = TRUE
            /\ sock = "connected"
            /\ sendBuffer = <<>>
            /\ rooms = SeqToSet(task_ids)
            /\ emitted = task_ids
            /\ pc = "idle"
            /\ files = <<>>
            /\ settled = [state |-> "resolved", value |-> task_ids]
            /\ nextId = n + 1
            /\ user = Null
            /\ notifSock = "none"
            /\ trackingTaskIds = task_ids
            /\ unreadCount = 0
            /\ previousJobs = jobs
            /\ markPc = "idle"
            /\ refreshes = 0
            /\ notifRoom = Null
            /\ notifJoins = 0
            /\ backendUnread = 0
            /\ notifInFlight = <<>>
            /\ accessCode = FreshCode
            /\ markUsed = [r \in Requests |-> IdleRequest]
            /\ now = 0

NextReconciler == \E data \in Events : TaskUpdate(data)

SpecReconciler == InitReconciler /\ [][NextReconciler]_vars

\* the payloads whose fields fit their type: a result comes with complete and
\* only with it, an error with error and only with it; any progress, in any
\* order
WellFormedEvents ==
    {data \in Events :
        /\ data.result # Null <=> data.type = "complete"
        /\ data.error # Null <=> data.type = "error"}

NextStages == \E data \in WellFormedEvents : TaskUpdate(data)

\* the reconciler and the modal that tracks the batch, fed events of every
\* type whose fields fit their type
SpecStages == InitReconciler /\ [][NextStages]_vars

\* complete and error events of a task that is run or reported twice: the
\* second delivery carries another result or error
RedeliveryEvents ==
    {data \in [task_id : TaskIds, type : {"complete", "error"},
               progress : {<<>>, <<100>>},
               result : {Null, "r1", "r2"}, error : {Null, "e1", "e2"}] :
        /\ data.type = "complete" => (data.result # Null /\ data.error = Null)
        /\ data.type = "error" => (data.error # Null /\ data.result = Null
                                      /\ data.progress = <<>>)}

NextRedelivery == \E data \in RedeliveryEvents : TaskUpdate(data)

\* the reconciler fed completions and errors that are delivered again
SpecRedelivery == InitReconciler /\ [][NextRedelivery]_vars

----------------------------------------------------------------------------
(* Claims about the task_update handler, under SpecReconciler *)

\* C1: once a job is completed or failed, no task_update event for it
\* changes its record (status, progress, result, error)
C1_TerminalStickiness ==
    [][\A data \in Events :
          (/\ data.task_id \in DOMAIN jobs
           /\ IsTerminal(jobs[data.task_id].status)
           /\ TaskUpdate(data))
          => jobs'[data.task_id] = jobs[data.task_id]]_vars

\* C2: once a job has left pending, no task_update event decreases its
\* progress
C2_MonotonicProgress ==
    [][\A data \in Events :
          (/\ data.task_id \in DOMAIN jobs
           /\ jobs[data.task_id].status # "pending"
           /\ TaskUpdate(data))
          => jobs'[data.task_id].progress >= jobs[data.task_id].progress]_vars

\* C3: a completed job has progress exactly 100, and a complete event
\* stores 100 whatever progress it carries
C3_CompletedIs100 ==
    /\ \A id \in DOMAIN jobs :
           jobs[id].status = "completed" => jobs[id].progress = 100
    /\ \A data \in Events :
           (data.type = "complete" /\ data.task_id \in DOMAIN jobs)
           => LET job == TaskUpdateUpdater(jobs, data)[data.task_id]
              IN  job.status = "completed" /\ job.progress = 100

\* C3 witness: a complete event has completed a job
C3_Witness ==
    \E id \in DOMAIN jobs :
        /\ jobs[id].status = "completed"
        /\ jobs[id].progress = 100
        /\ jobs[id].result = "r1"

\* C4: a task_update for a task_id that is no key of the registry leaves
\* the registry exactly as it was
C4_UnknownJobSafety ==
    \A data \in Events :
        data.task_id \notin DOMAIN jobs
        => /\ TaskUpdateUpdater(jobs, data) = jobs
           /\ DOMAIN TaskUpdateUpdater(jobs, data) = DOMAIN jobs

\* C4 witness: events have acted on the registry while one task id is unknown
C4_Witness ==
    /\ \E id \in TaskIds : id \notin DOMAIN jobs
    /\ \E id \in DOMAIN jobs : jobs[id].status = "processing"

\* C5: applying the same complete event twice leaves the registry as
\* applying it once
C5_IdempotentCompletion ==
    \A data \in Events :
        data.type = "complete"
        => TaskUpdateUpdater(TaskUpdateUpdater(jobs, data), data)
               = TaskUpdateUpdater(jobs, data)

\* C5 witness: a complete event was applied to a job that had a progress,
\* and an error, of its own
C5_Witness ==
    \E id \in DOMAIN jobs :
        /\ jobs[id].status = "completed"
        /\ jobs[id].error = "e1"
        /\ jobs[id].result = "r1"

----------------------------------------------------------------------------
(* Claims about startBatchProcessing, under SpecBatch *)

\* C6: when the create-jobs call fails, the call has added no registry entry
\* and emitted no join_task: neither the steps that start the uploads and
\* the create-jobs call nor the failing step touch the registry or the socket
C6_BatchAtomicity ==
    [][(\/ (pc' # pc /\ pc' \in {"uploading", "creating"})
        \/ (pc = "creating" /\ settled'.state = "rejected"))
       => UNCHANGED <<jobs, emitted, sendBuffer, rooms>>]_vars

\* C6 witness: a create-jobs call has failed
C6_Witness ==
    /\ pc = "idle"
    /\ settled.state = "rejected"
    /\ settled.error \in CreateJobsErrors

\* C7: called while the socket is not connected, startBatchProcessing
\* rejects with the not-connected error and starts no upload, no
\* create-jobs call, no registry insertion and no join_task
C7_FailFastDisconnected ==
    [][(/\ pc = "idle"
        /\ sock # "connected"
        /\ <<pc, files, settled>>' # <<pc, files, settled>>)
       => /\ pc' = "idle"
          /\ settled' = [state |-> "rejected",
                         error |-> "WebSocket not connected"]
          /\ UNCHANGED <<files, jobs, emitted, sendBuffer, rooms, nextId>>]_vars

\* C7 witness: a call was rejected as not connected
C7_Witness ==
    /\ settled = [state |-> "rejected", error |-> "WebSocket not connected"]
    /\ sock # "connected"

\* C8: a successful call resolves with the backend's task ids in input
\* order, and the registry then holds for the i-th id the i-th file's name,
\* status pending, progress 0
C8_SeededInOrder ==
    [][(pc = "creating" /\ settled'.state = "resolved")
       => /\ settled'.value = BackendTaskIds(Len(files))
          /\ \A i \in 1..Len(files) :
                 /\ settled'.value[i] \in DOMAIN jobs'
                 /\ jobs'[settled'.value[i]] =
                        [task_id |-> settled'.value[i],
                         filename |-> files[i], status |-> "pending",
                         progress |-> 0, result |-> Null, error |-> Null]]_vars

\* C8 witness: a batch of two files with different names was seeded
C8_Witness ==
    /\ settled.state = "resolved"
    /\ Len(settled.value) = MaxFiles
    /\ \A i \in 1..MaxFiles : settled.value[i] \in DOMAIN jobs
    /\ jobs[settled.value[1]].filename # jobs[settled.value[MaxFiles]].filename

----------------------------------------------------------------------------
(* Claims about the socket session, under Spec *)

\* C9: whenever the socket is connected, every job a join_task was emitted
\* for and that is still pending or processing is joined in the current
\* session
C9_Resubscription ==
    sock = "connected"
    => \A id \in SeqToSet(emitted) :
           (id \in DOMAIN jobs /\ ~IsTerminal(jobs[id].status))
           => id \in rooms

----------------------------------------------------------------------------
(* Claims about the provider tree, under SpecTree *)

OpenConnections ==
    (IF sock = "connected" THEN 1 ELSE 0)
        + (IF notifSock = "connected" THEN 1 ELSE 0)

\* C10: at most one connection to the backend event service is open
C10_SingleConnection == OpenConnections <= 1

----------------------------------------------------------------------------
(* Claims about the aggregates of the upload modal *)

\* C11 as stated: the overall progress shown for the tracked jobs equals the
\* arithmetic mean of their progress
C11_AggregateIsMean ==
    LET tj == trackedJobs(trackingTaskIds, jobs)
    IN  Len(tj) > 0 => overallProgress(tj) * Len(tj) = SumProgress(tj)

\* C11 amended: the overall progress shown is the integer nearest to the
\* arithmetic mean of the progress of the tracked jobs, halves rounded up,
\* and 0 when no tracked job is in the registry
C11_AggregateIsRoundedMean ==
    LET tj == trackedJobs(trackingTaskIds, jobs)
        n == Len(tj)
        shown == overallProgress(tj)
    IN  IF n = 0
        THEN shown = 0
        ELSE /\ 2 * n * shown - n <= 2 * SumProgress(tj)
             /\ 2 * SumProgress(tj) < 2 * n * shown + n

\* C11 witness: two tracked jobs with progress 0 and 45 are shown as 23
C11_Witness ==
    LET tj == trackedJobs(trackingTaskIds, jobs)
    IN  /\ Len(tj) = 2
        /\ SumProgress(tj) = 45
        /\ overallProgress(tj) = 23

\* C12 as stated: the all-complete flag is true exactly when every tracked
\* job has a terminal status
C12_AllCompleteIff ==
    allJobsComplete(trackedJobs(trackingTaskIds, jobs))
        <=> \A id \in SeqToSet(trackingTaskIds) :
                id \in DOMAIN jobs /\ IsTerminal(jobs[id].status)

\* C12 amended: the all-complete flag is true exactly when at least one job
\* is tracked and every tracked job has a terminal status
C12_AllCompleteIffTracked ==
    allJobsComplete(trackedJobs(trackingTaskIds, jobs))
        <=> /\ trackingTaskIds # <<>>
            /\ \A id \in SeqToSet(trackingTaskIds) :
                   id \in DOMAIN jobs /\ IsTerminal(jobs[id].status)

\* C12 witness: a tracked batch of two jobs is all complete
C12_Witness ==
    /\ Len(trackingTaskIds) = 2
    /\ allJobsComplete(trackedJobs(trackingTaskIds, jobs))

----------------------------------------------------------------------------
(* Claims about the unread counter *)

\* C13: every run of the registry watcher adds to the unread counter exactly
\* the number of jobs it sees going from pending or processing to completed
\* or failed: one per such transition, nothing for any other registry change
C13_UnreadPerCompletion ==
    [][previousJobs' # previousJobs
       => unreadCount' = unreadCount + Cardinality(ObservedCompletions)]_vars

\* C14: the step that invokes markAllAsRead sets the unread counter to zero,
\* before the backend has answered
C14_OptimisticZero ==
    [][(markPc = "idle" /\ markPc' = "posting") => unreadCount' = 0]_vars

----------------------------------------------------------------------------
(* More claims about the task_update handler *)

\* the events whose type the handler does not know
UnknownTypeEvents == {data \in Events : data.type \notin KnownTypes}

C16_WriteOnce ==
    [][\A id \in DOMAIN jobs :
          /\ jobs[id].result # Null => jobs'[id].result = jobs[id].result
          /\ jobs[id].error # Null => jobs'[id].error = jobs[id].error]_vars

\* C17: every task_update received for a job of the registry is appended to
\* that job's updates log, whatever the job's status, and the log never
\* gets shorter
C17_UpdatesLog ==
    [][/\ \A data \in Events :
              (data.task_id \in DOMAIN jobs /\ TaskUpdate(data))
              => updates(jobs'[data.task_id])
                     = Append(updates(jobs[data.task_id]), data)
       /\ \A id \in DOMAIN jobs :
              Len(updates(jobs'[id])) >= Len(updates(jobs[id]))]_vars

----------------------------------------------------------------------------
(* More claims about the socket session and startBatchProcessing *)

\* C18: a step in which the transport is lost or gives up (disconnect,
\* connect_error) leaves the connected flag false and every job record as
\* it was
C18_TransportErrorKeepsJobs ==
    [][(sock' # sock /\ sock' \in {"reconnecting", "stopped"})
       => (isConnected' = FALSE /\ jobs' = jobs)]_vars

\* C18 witness: the connection was lost while a job was processing
C18_Witness ==
    /\ sock \in {"reconnecting", "stopped"}
    /\ ~isConnected
    /\ \E id \in DOMAIN jobs : jobs[id].status = "processing"

\* C19: once the session has been connected, and for as long as the
\* provider stays mounted, the socket is connected or retrying on its own:
\* a connect can always still happen without any user action
C19_AutoReconnect ==
    [][(sock \in {"connected", "reconnecting"} /\ sock' \notin {"none", "closed"})
       => (sock' = "connected" \/ (ENABLED SocketConnect)')]_vars

\* C20: a successful startBatchProcessing has emitted one join_task for
\* every task id of the list it returns, in order, and for no other id
C20_JoinPerTask ==
    [][(pc = "creating" /\ settled'.state = "resolved")
       => emitted' = emitted \o settled'.value]_vars

\* C20 witness: a batch of two was started and both joins were emitted
C20_Witness ==
    /\ settled.state = "resolved"
    /\ Len(settled.value) = 2
    /\ \E i \in 1..Len(emitted) - 1 :
           <<emitted[i], emitted[i + 1]>> = settled.value

----------------------------------------------------------------------------
(* Claims about error events, under SpecStages *)

ErrorEvents == {data \in Events : data.type = "error"}

----------------------------------------------------------------------------
(* Claims about who writes the registry, under SpecRegistry *)

\* the events that complete a task
CompleteEvents == {data \in BackendEvents : data.type = "complete"}

NextRegistry ==
    \/ \E data \in CompleteEvents : TaskUpdate(data)
    \/ BatchCall
    \/ \E taskId \in TaskIds, ok \in BOOLEAN : CancelJob(taskId, ok)
    \/ Transport

\* every operation of the ProcessingProvider, while tasks complete
SpecRegistry == Init /\ [][NextRegistry]_vars

\* the step is the seeding step of a startBatchProcessing call that resolves
SeedingStep ==
    /\ pc = "creating"
    /\ settled'.state = "resolved"
    /\ DOMAIN jobs' = DOMAIN jobs \cup SeqToSet(settled'.value)
    /\ \A id \in DOMAIN jobs \ SeqToSet(settled'.value) : jobs'[id] = jobs[id]

\* the step applies a task_update event to the entry of its task
TaskUpdateStep ==
    \E id \in DOMAIN jobs :
        /\ sock = "connected"
        /\ DOMAIN jobs' = DOMAIN jobs
        /\ \A other \in DOMAIN jobs \ {id} : jobs'[other] = jobs[other]
        /\ \E data \in Events \cup BackendEvents :
               /\ data.task_id = id
               /\ jobs'[id] = updatedJob(jobs[id], data)

\* the step is a cancelJob that the backend accepted
CancelStep ==
    \E id \in DOMAIN jobs :
        jobs' = [jobs EXCEPT ![id].status = "failed",
                             ![id].error = "Cancelled by user"]

----------------------------------------------------------------------------
(* Claims about the registry as a whole, under SpecStages *)

\* two events addressed to different tasks, of any two types
EventPairs ==
    LET typed == {data \in WellFormedEvents : data.progress = <<45>>}
    IN  {pair \in typed \X typed : pair[1].task_id < pair[2].task_id}

\* C23: applying a task_update event for one job leaves the record of every
\* other job unchanged and reads no other record, so two events addressed to
\* different jobs give the same registry in either order
C23_CrossJobIndependence ==
    /\ \A data \in Events :
           LET new == TaskUpdateUpdater(jobs, data)
           IN  /\ DOMAIN new = DOMAIN jobs
               /\ \A id \in DOMAIN jobs \ {data.task_id} : new[id] = jobs[id]
    /\ \A pair \in EventPairs :
           TaskUpdateUpdater(TaskUpdateUpdater(jobs, pair[1]), pair[2])
               = TaskUpdateUpdater(TaskUpdateUpdater(jobs, pair[2]), pair[1])

\* two jobs of one batch that events took to different states
C23_Witness ==
    /\ 1 \in DOMAIN jobs /\ 2 \in DOMAIN jobs
    /\ jobs[1].status = "completed"
    /\ jobs[2].status = "processing" /\ jobs[2].progress = 45

\* C24: in every reachable state the progress of every job lies in 0..100,
\* whatever progress the events carried
C24_ProgressInRange ==
    \A id \in DOMAIN jobs : jobs[id].progress \in 0..100

\* a job still processing whose progress is the clamped 100 of an event that
\* carried 130, next to one whose progress is the clamped 0 of one that
\* carried -20
C24_Witness ==
    /\ 1 \in DOMAIN jobs /\ 2 \in DOMAIN jobs
    /\ jobs[1].status = "processing" /\ jobs[1].progress = 100
    /\ jobs[2].status = "processing" /\ jobs[2].progress = 0

----------------------------------------------------------------------------
(* Claims about seeding and failing batches, under SpecBatch *)

\* C25: when startBatchProcessing commits the entries of its batch, every
\* record already in the registry under another id is left as the last
\* task_update left it, the updates applied during the create-jobs call
\* included
C25_SeedingKeepsOthers ==
    [][(pc = "creating" /\ settled'.state = "resolved")
          => \A id \in DOMAIN jobs \ SeqToSet(settled'.value) :
                 id \in DOMAIN jobs' /\ jobs'[id] = jobs[id]]_vars

\* the second batch has just been seeded and the job of the first batch
\* still shows the completion an event brought
C25_Witness ==
    /\ settled.state = "resolved"
    /\ settled.value = <<2>>
    /\ jobs[2].status = "pending"
    /\ jobs[1].status = "completed"
    /\ jobs[1].result = "r1"

\* C26: the registry entry of a task exists from the moment its join_task
\* is emitted: every task whose join was emitted, is buffered or is in
\* force has its entry, so no task_update for a joined task is discarded as
\* unknown
C26_SeededBeforeJoin ==
    /\ SeqToSet(emitted) \subseteq DOMAIN jobs
    /\ SeqToSet(sendBuffer) \subseteq DOMAIN jobs
    /\ rooms \subseteq DOMAIN jobs
    /\ \A data \in SuccessEvents :
           data.task_id \in rooms =>
               TaskUpdateUpdater(jobs, data)[data.task_id].status # "pending"

\* an update delivered after the join found the job and was applied
C26_Witness ==
    \E id \in rooms : jobs[id].status = "processing" /\ jobs[id].progress = 40

\* C27: when the upload of a file of the batch fails, the call rejects
\* there: the create-jobs call is not issued, no entry is stored and no
\* join_task is emitted
C27_UploadFailureAborts ==
    [][\A failed \in SUBSET (1..MaxFiles) :
          (failed # {} /\ UploadsSettle(failed))
          => /\ pc' = "idle"
             /\ settled'.state = "rejected"
             /\ UNCHANGED <<jobs, emitted, sendBuffer, rooms, nextId>>]_vars

\* a second batch was rejected for a failed upload; the registry holds the
\* first batch only
C27_Witness ==
    /\ settled = [state |-> "rejected", error |-> "Failed to upload file"]
    /\ pc = "idle"
    /\ DOMAIN jobs = {1}
    /\ emitted = <<1>>

----------------------------------------------------------------------------
(* Claims about the NotificationProvider and the backend *)

\* C28: no completion is counted twice: the local unread counter never
\* exceeds the unread count of the backend
C28_LocalWithinBackend == unreadCount <= backendUnread

\* C29: whenever the notification socket is connected, on its first
\* connection or after a reconnection, it has emitted join_user_notifications
\* with the id of the signed-in user in that session; and no notification
\* socket is open while no user is signed in
C29_JoinOnEveryConnect ==
    /\ notifSock = "connected" =>
           /\ user # Null
           /\ notifRoom = user
           /\ notifJoins >= 1
    /\ user = Null => (~NotifOpen /\ notifRoom = Null)

\* the socket lost its connection, connected again and joined again
C29_Witness ==
    /\ notifSock = "connected"
    /\ notifJoins = 2
    /\ notifRoom = user
    /\ user \in UserIds

----------------------------------------------------------------------------
(* Claims about the access-code routes, under SpecAccess *)

\* C30: an access code is single-use: of the mark-used requests for it, in
\* any interleaving, at most one is answered 200
C30_SingleUse ==
    Cardinality({r \in Requests : markUsed[r].status = 200}) <= 1

====
